---- MODULE Spec2Model ----
(***************************************************************************)
(* Model of the pump calibration screen, src/src/programs/calibration.py. *)
(*                                                                         *)
(* Units.  Flow rates of a session are held in hundredths of ml/s, so the  *)
(* value the code stores after round(x, 2) is an integer here: 0.1 ml/s is *)
(* 10, 30.0 ml/s is 3000, 1000.0 ml/s is 100000.  Volumes are the integer  *)
(* ml values of the amount fields.  Deviation ratios are held in tenths    *)
(* (3.0 is 30, 0.5 is 5).  Arithmetic is exact rational arithmetic; the    *)
(* only place where the binary floating point of the code can differ from  *)
(* it within the modelled ranges is a rounding tie, which round2 leaves    *)
(* open (both neighbours are possible outcomes).                           *)
(***************************************************************************)
EXTENDS Integers, Sequences, FiniteSets, TLC

\* ------------------------------------------------------------------ bounds

\* Small configured flow rates 0 .. MaxSmallFlow (hundredths of ml/s) are all tried.
MaxSmallFlow == 6
\* Number of pumps in cfg.PUMP_CONFIG; pump indices 0 .. NumPumps are tried
\* (NumPumps itself is out of range).
NumPumps == 1
\* Cap on the dispense runs counted in one session.
MaxDispense == 2
\* The pure function is tried on every integer of -MaxCalc .. MaxCalc.
MaxCalc == 3

\* ------------------------------------------------------- program constants

MIN_FLOW_RATE == 10
MAX_FLOW_RATE == 100000
MAX_DEVIATION_RATIO == 30
MIN_DEVIATION_RATIO == 5
\* current_flow_rate or 30.0
DEFAULT_FLOW_RATE == 3000
\* pump_index: int | None = None
NoPump == -1

\* amount buttons: change_input_value(self.amount, 10, 200, +-10)
AMOUNT_MIN == 10
AMOUNT_MAX == 200
AMOUNT_STEP == 10
\* actual amount buttons: change_input_value(self.actual_amount, 0, 200, +-10, ...)
ACTUAL_MIN == 0
ACTUAL_MAX == 200
ACTUAL_STEP == 10

PRE_DISPENSE == "PRE_DISPENSE"
POST_DISPENSE == "POST_DISPENSE"
CalibrationState == {PRE_DISPENSE, POST_DISPENSE}

\* Texts of warning_label.  InitialWarningText is whatever setupUi put there.
InitialWarningText == "initial"
OutOfBoundsText == "flow_rate_out_of_bounds"
UnrealisticText == "flow_rate_unrealistic_warning"
NoWarningText == ""

\* Text of calculated_flow_rate: "-- ml/s" or a value.
NoFlowShown == <<"--">>
FlowShown(v) == <<"value", v>>

\* -------------------------------------------------------------- inputs

\* Configured flow rates passed to the constructor (hundredths of ml/s).
FlowArgs == (0 .. MaxSmallFlow) \cup {10, 3000, 100000}
\* Values the amount field can hold.
AmountValues == {AMOUNT_STEP * k : k \in (AMOUNT_MIN \div AMOUNT_STEP) .. (AMOUNT_MAX \div AMOUNT_STEP)}
\* Arguments the pure function is tried on.
CalcFlows == (-MaxCalc .. MaxCalc) \cup {30, 500}
CalcVolumes == (-MaxCalc .. MaxCalc) \cup {-100, 25, 50, 95, 100, 200}

VARIABLES
    pump_mode,            \* self.pump_mode
    pump_index,           \* self.pump_index (NoPump for None)
    arg_flow_rate,        \* the constructor's current_flow_rate: [given, value]
    current_flow_rate,    \* self.current_flow_rate
    calculated_flow,      \* self.calculated_flow
    state,                \* self.state
    has_callback,         \* self.on_accept_callback is not None
    amount,               \* int(self.amount.text())
    actual_amount,        \* int(self.actual_amount.text())
    PB_start_visible,
    PB_accept_visible,
    PB_accept_enabled,
    amount_visible,       \* amount, amount_plus, amount_minus, label_2
    actual_visible,       \* actual_amount, its buttons, labels
    warning_label,
    flow_label,           \* calculated_flow_rate text
    closed,               \* the window was closed
    cfg_volume_flow,      \* cfg.PUMP_CONFIG[pump_index].volume_flow (in memory)
    file_volume_flow,     \* the same value in the config file
    dispense_count,       \* calls of maker.calibrate
    dispensed_amount,     \* amount of the last maker.calibrate call
    callback_calls,       \* calls of on_accept_callback
    commit_trace,         \* steps of the last accept_calibration call
    call                  \* one call of calculate_corrected_flow_rate (SpecCalc,
                          \* SpecClassify)

sessionVars == <<pump_mode, pump_index, arg_flow_rate, current_flow_rate, calculated_flow,
                 state, has_callback, amount, actual_amount, PB_start_visible,
                 PB_accept_visible, PB_accept_enabled, amount_visible, actual_visible,
                 warning_label, flow_label, closed, cfg_volume_flow, file_volume_flow,
                 dispense_count, dispensed_amount, callback_calls, commit_trace>>

vars == <<sessionVars, call>>

\* ------------------------------------------------------------ arithmetic

Abs(x) == IF x < 0 THEN -x ELSE x

RECURSIVE Gcd(_, _)
Gcd(a, b) == IF b = 0 THEN a ELSE Gcd(b, a % b)

\* The rational n/d (d # 0) in lowest terms with a positive denominator.
Rat(n, d) ==
    LET g == Gcd(Abs(n), Abs(d))
        s == IF d < 0 THEN -1 ELSE 1
    IN  [num |-> (s * n) \div g, den |-> (s * d) \div g]

\* t / a of the code: ZeroDivisionError for a = 0.
Divide(t, a) ==
    IF a = 0 THEN [raised |-> TRUE, num |-> 0, den |-> 1]
    ELSE [raised |-> FALSE, num |-> Rat(t, a).num, den |-> Rat(t, a).den]

\* f * q for a quotient q of Divide.
Times(f, q) ==
    IF q.raised THEN q
    ELSE [raised |-> FALSE, num |-> Rat(f * q.num, q.den).num, den |-> Rat(f * q.num, q.den).den]

\* Mutant: the actual_ml == 0 guard is missing.
calculate_without_zero_guard(current_flow, target_ml, actual_ml) ==
    Times(current_flow, Divide(target_ml, actual_ml))

\* calculate_corrected_flow_rate(current_flow, target_ml, actual_ml)
calculate_corrected_flow_rate(current_flow, target_ml, actual_ml) ==
    IF actual_ml = 0
    THEN [raised |-> FALSE, num |-> current_flow, den |-> 1]
    ELSE Times(current_flow, Divide(target_ml, actual_ml))

\* Mutant: the value is cut to 2 decimals, not rounded.
round2_truncates(x) == {x.num \div x.den}

\* round(x, 2) of a value x = num/den hundredths: the nearest integer; on a tie the
\* binary value of x decides, so both neighbours are possible.
round2(x) ==
    LET q == x.num \div x.den
        r == x.num % x.den
    IN  IF 2 * r < x.den THEN {q}
        ELSE IF 2 * r > x.den THEN {q + 1}
        ELSE {q, q + 1}

\* A value v hundredths is held exactly by a binary float when v/100 is a multiple
\* of 1/4.
FloatExact(v) == v % 25 = 0

\* The possible truth values of `calculated / current > limit` and of
\* `calculated / current < limit` (current # 0, limit in tenths).  Off the limit the
\* float quotient is on the side of the exact one; exactly on the limit it is the
\* limit itself when both operands are exact floats, and otherwise it may fall on
\* either side (0.27 / 0.09 is 3.0000000000000004).
RatioAbove(calculated, current, limit) ==
    LET lhs == IF current > 0 THEN 10 * calculated ELSE limit * current
        rhs == IF current > 0 THEN limit * current ELSE 10 * calculated
    IN  IF lhs > rhs THEN {TRUE}
        ELSE IF lhs < rhs THEN {FALSE}
        ELSE IF FloatExact(calculated) /\ FloatExact(current) THEN {FALSE}
        ELSE {TRUE, FALSE}

RatioBelow(calculated, current, limit) ==
    LET lhs == IF current > 0 THEN 10 * calculated ELSE limit * current
        rhs == IF current > 0 THEN limit * current ELSE 10 * calculated
    IN  IF lhs < rhs THEN {TRUE}
        ELSE IF lhs > rhs THEN {FALSE}
        ELSE IF FloatExact(calculated) /\ FloatExact(current) THEN {FALSE}
        ELSE {TRUE, FALSE}

\* Mutant: only the upper bound is checked.
OutOfBounds_upper_only(flow) == flow > MAX_FLOW_RATE

\* Mutant: the bounds themselves count as out of bounds.
OutOfBounds_inclusive(flow) == flow <= MIN_FLOW_RATE \/ flow >= MAX_FLOW_RATE

\* The bounds check of on_actual_amount_changed.
OutOfBounds(flow) == flow < MIN_FLOW_RATE \/ flow > MAX_FLOW_RATE

\* Mutant: the deviation limits themselves raise the warning.
UnrealisticDeviation_inclusive(flow, current) ==
    {10 * flow >= MAX_DEVIATION_RATIO * current \/ 10 * flow <= MIN_DEVIATION_RATIO * current}

\* The deviation check of on_actual_amount_changed (current # 0): its possible
\* truth values.
UnrealisticDeviation(flow, current) ==
    {above \/ below : above \in RatioAbove(flow, current, MAX_DEVIATION_RATIO),
                      below \in RatioBelow(flow, current, MIN_DEVIATION_RATIO)}

\* DP_CONTROLLER.change_input_value(label, minimal, maximal, delta): the new value
\* of the field, kept within minimal .. maximal (the display controller is outside
\* calibration.py; the body follows the arguments of its call sites).
change_input_value(value, minimal, maximal, delta) ==
    LET v == value + delta
    IN  IF v < minimal THEN minimal ELSE IF v > maximal THEN maximal ELSE v

\* ------------------------------------------------------------ the session

\* Mutant: the accept button is not disabled.
show_invalid_keeps_accept(warning_text) ==
    /\ flow_label' = NoFlowShown
    /\ warning_label' = IF warning_text # "" THEN warning_text ELSE warning_label
    /\ PB_accept_enabled' = PB_accept_enabled

\* _show_invalid_flow_rate(warning_text)
show_invalid_flow_rate(warning_text) ==
    /\ flow_label' = NoFlowShown
    /\ warning_label' = IF warning_text # "" THEN warning_text ELSE warning_label
    /\ PB_accept_enabled' = FALSE

\* Mutant: only a negative actual amount is rejected.
InvalidMeasurement_negative_only(actual_ml) == actual_ml < 0

\* The guard on the actual amount at the head of on_actual_amount_changed.
InvalidMeasurement(actual_ml) == actual_ml <= 0

\* Mutant: an unrealistic deviation is rejected like an out-of-bounds value.
check_and_display_hard_reject(c) ==
    IF OutOfBounds(c)
    THEN show_invalid_flow_rate(OutOfBoundsText)
    ELSE IF current_flow_rate = 0
    THEN show_invalid_flow_rate("")
    ELSE \E unrealistic \in UnrealisticDeviation(c, current_flow_rate) :
            IF unrealistic
            THEN show_invalid_flow_rate(UnrealisticText)
            ELSE /\ warning_label' = NoWarningText
                 /\ flow_label' = FlowShown(c)
                 /\ PB_accept_enabled' = TRUE

\* The bounds check, the deviation check and the display update of
\* on_actual_amount_changed, for the stored flow rate c.
check_and_display(c) ==
    IF OutOfBounds(c)
    THEN \* the label is set to the value and then reset by _show_invalid_flow_rate
         show_invalid_flow_rate(OutOfBoundsText)
    ELSE IF current_flow_rate = 0
    THEN \* deviation_ratio raises ZeroDivisionError, caught
         show_invalid_flow_rate("")
    ELSE /\ \E unrealistic \in UnrealisticDeviation(c, current_flow_rate) :
               warning_label' = IF unrealistic THEN UnrealisticText ELSE NoWarningText
         /\ flow_label' = FlowShown(c)
         /\ PB_accept_enabled' = TRUE

\* Mutant: the computed value is stored only once it has passed the bounds check.
on_actual_amount_changed_store_after_check(target_amount, actual_ml) ==
    IF InvalidMeasurement(actual_ml)
    THEN /\ show_invalid_flow_rate(OutOfBoundsText)
         /\ UNCHANGED calculated_flow
    ELSE LET x == calculate_corrected_flow_rate(current_flow_rate, target_amount, actual_ml)
         IN  IF x.raised
             THEN /\ show_invalid_flow_rate("")
                  /\ UNCHANGED calculated_flow
             ELSE \E c \in round2(x) :
                  /\ calculated_flow' = IF OutOfBounds(c) THEN calculated_flow ELSE c
                  /\ check_and_display(c)

\* on_actual_amount_changed, reading the given texts of amount and actual_amount.
on_actual_amount_changed(target_amount, actual_ml) ==
    IF InvalidMeasurement(actual_ml)
    THEN /\ show_invalid_flow_rate(OutOfBoundsText)
         /\ UNCHANGED calculated_flow
    ELSE LET x == calculate_corrected_flow_rate(current_flow_rate, target_amount, actual_ml)
         IN  IF x.raised
             THEN \* except ZeroDivisionError
                  /\ show_invalid_flow_rate("")
                  /\ UNCHANGED calculated_flow
             ELSE \E c \in round2(x) :
                  /\ calculated_flow' = c
                  /\ check_and_display(c)

\* self.current_flow_rate = current_flow_rate or 30.0
InitialFlowRate(arg) ==
    IF ~arg.given \/ arg.value = 0 THEN DEFAULT_FLOW_RATE ELSE arg.value

NoCall == [f |-> 0, t |-> 0, a |-> 0, done |-> FALSE, raised |-> FALSE, num |-> 0, den |-> 1,
           classified |-> "no"]

\* Mutant: _hide_post_dispense_ui is not called.
SessionInit_shows_post_dispense_ui ==
    /\ pump_index \in {NoPump} \cup (0 .. NumPumps)
    /\ pump_mode = (pump_index # NoPump)
    /\ arg_flow_rate \in {[given |-> FALSE, value |-> 0]}
                         \cup {[given |-> TRUE, value |-> v] : v \in FlowArgs}
    /\ current_flow_rate = InitialFlowRate(arg_flow_rate)
    /\ calculated_flow = 0
    /\ state = PRE_DISPENSE
    /\ has_callback \in BOOLEAN
    /\ amount \in AmountValues
    /\ actual_amount = 0
    /\ PB_start_visible = TRUE
    /\ PB_accept_visible = TRUE
    /\ PB_accept_enabled = TRUE
    /\ amount_visible = TRUE
    /\ actual_visible = TRUE
    /\ warning_label = InitialWarningText
    /\ flow_label = NoFlowShown
    /\ closed = FALSE
    /\ cfg_volume_flow = (IF arg_flow_rate.given THEN arg_flow_rate.value ELSE DEFAULT_FLOW_RATE)
    /\ file_volume_flow = cfg_volume_flow
    /\ dispense_count = 0
    /\ dispensed_amount = 0
    /\ callback_calls = 0
    /\ commit_trace = <<>>

\* __init__ and _setup_ui_mode
SessionInit ==
    /\ pump_index \in {NoPump} \cup (0 .. NumPumps)
    /\ pump_mode = (pump_index # NoPump)
    /\ arg_flow_rate \in {[given |-> FALSE, value |-> 0]}
                         \cup {[given |-> TRUE, value |-> v] : v \in FlowArgs}
    /\ current_flow_rate = InitialFlowRate(arg_flow_rate)
    /\ calculated_flow = 0
    /\ state = PRE_DISPENSE
    /\ has_callback \in BOOLEAN
    /\ amount \in AmountValues
    /\ actual_amount = 0
    /\ PB_start_visible = TRUE
    /\ PB_accept_visible = FALSE
    /\ PB_accept_enabled = TRUE
    /\ amount_visible = TRUE
    /\ actual_visible = FALSE
    /\ warning_label = InitialWarningText
    /\ flow_label = NoFlowShown
    /\ closed = FALSE
    /\ cfg_volume_flow = (IF arg_flow_rate.given THEN arg_flow_rate.value ELSE DEFAULT_FLOW_RATE)
    /\ file_volume_flow = cfg_volume_flow
    /\ dispense_count = 0
    /\ dispensed_amount = 0
    /\ callback_calls = 0
    /\ commit_trace = <<>>

Init ==
    /\ SessionInit
    /\ call = NoCall

\* amount_plus / amount_minus
AmountButton(delta) ==
    /\ ~closed
    /\ amount_visible
    /\ amount' = change_input_value(amount, AMOUNT_MIN, AMOUNT_MAX, delta)
    /\ UNCHANGED <<pump_mode, pump_index, arg_flow_rate, current_flow_rate, calculated_flow,
                   state, has_callback, actual_amount, PB_start_visible,
                   PB_accept_visible, PB_accept_enabled, amount_visible, actual_visible,
                   warning_label, flow_label, closed, cfg_volume_flow, file_volume_flow,
                   dispense_count, dispensed_amount, callback_calls, commit_trace, call>>

AmountPlus == AmountButton(AMOUNT_STEP)
AmountMinus == AmountButton(-AMOUNT_STEP)

\* actual_amount_plus / actual_amount_minus, with on_actual_amount_changed as side effect
ActualAmountButton(delta) ==
    /\ ~closed
    /\ actual_visible
    /\ actual_amount' = change_input_value(actual_amount, ACTUAL_MIN, ACTUAL_MAX, delta)
    /\ on_actual_amount_changed(amount, actual_amount')
    /\ UNCHANGED <<pump_mode, pump_index, arg_flow_rate, current_flow_rate,
                   state, has_callback, amount, PB_start_visible,
                   PB_accept_visible, amount_visible, actual_visible,
                   closed, cfg_volume_flow, file_volume_flow,
                   dispense_count, dispensed_amount, callback_calls, commit_trace, call>>

ActualAmountPlus == ActualAmountButton(ACTUAL_STEP)
ActualAmountMinus == ActualAmountButton(-ACTUAL_STEP)

\* Mutant: the dispense button is kept in pump mode too.
switch_keeps_start_button ==
    /\ PB_start_visible' = TRUE
    /\ amount_visible' = FALSE
    /\ actual_visible' = TRUE
    /\ PB_accept_visible' = pump_mode
    /\ actual_amount' = amount

\* _switch_to_post_dispense_ui, without its final on_actual_amount_changed
switch_to_post_dispense_ui ==
    /\ PB_start_visible' = ~pump_mode
    /\ amount_visible' = FALSE
    /\ actual_visible' = TRUE
    /\ PB_accept_visible' = pump_mode
    /\ actual_amount' = amount

\* Mutant: the state is not switched.
output_volume_keeps_state ==
    /\ ~closed
    /\ PB_start_visible
    /\ dispense_count < MaxDispense
    /\ dispense_count' = dispense_count + 1
    /\ dispensed_amount' = amount
    /\ state' = state
    /\ switch_to_post_dispense_ui
    /\ on_actual_amount_changed(amount, actual_amount')
    /\ UNCHANGED <<pump_mode, pump_index, arg_flow_rate, current_flow_rate,
                   has_callback, amount, closed, cfg_volume_flow, file_volume_flow,
                   callback_calls, commit_trace, call>>

\* output_volume (PB_start)
output_volume ==
    /\ ~closed
    /\ PB_start_visible
    /\ dispense_count < MaxDispense
    /\ dispense_count' = dispense_count + 1
    /\ dispensed_amount' = amount
    /\ state' = POST_DISPENSE
    /\ switch_to_post_dispense_ui
    /\ on_actual_amount_changed(amount, actual_amount')
    /\ UNCHANGED <<pump_mode, pump_index, arg_flow_rate, current_flow_rate,
                   has_callback, amount, closed, cfg_volume_flow, file_volume_flow,
                   callback_calls, commit_trace, call>>

\* Outcomes of the configuration store during accept_calibration:
\* cfg.set_config(validate=True) and cfg.sync_config_to_file succeed or raise.
StoreOutcomes == {"ok", "ConfigError", "OSError"}

\* Mutant: an exception of the callback is not caught and ends the handler.
accept_calibration_callback_aborts(outcome, callback_raises) ==
    IF ~pump_mode \/ pump_index = NoPump
    THEN \* standard_box(calibration_accept_pump_mode_only); return
         /\ commit_trace' = <<"pump_mode_only">>
         /\ UNCHANGED <<cfg_volume_flow, file_volume_flow, callback_calls, closed>>
    ELSE IF pump_index >= NumPumps
    THEN \* IndexError, caught
         /\ commit_trace' = <<"IndexError">>
         /\ UNCHANGED <<cfg_volume_flow, file_volume_flow, callback_calls, closed>>
    ELSE \* pump_configs[self.pump_index].volume_flow = self.calculated_flow
         /\ cfg_volume_flow' = calculated_flow
         /\ IF outcome = "ConfigError"
            THEN /\ commit_trace' = <<"update", "validate", "ConfigError">>
                 /\ UNCHANGED <<file_volume_flow, callback_calls, closed>>
            ELSE IF outcome = "OSError"
            THEN /\ commit_trace' = <<"update", "validate", "sync", "OSError">>
                 /\ UNCHANGED <<file_volume_flow, callback_calls, closed>>
            ELSE /\ file_volume_flow' = calculated_flow
                 /\ callback_calls' = IF has_callback THEN callback_calls + 1 ELSE callback_calls
                 /\ commit_trace' =
                        <<"update", "validate", "sync">>
                        \o (IF has_callback
                            THEN (IF callback_raises THEN <<"callback", "callback_error">>
                                  ELSE <<"callback">>)
                            ELSE <<>>)
                        \o (IF has_callback /\ callback_raises THEN <<>> ELSE <<"close">>)
                 /\ closed' = (IF has_callback /\ callback_raises THEN closed ELSE TRUE)


\* accept_calibration (PB_accept), the store answering with `outcome`, and the
\* callback raising or not.
accept_calibration(outcome, callback_raises) ==
    IF ~pump_mode \/ pump_index = NoPump
    THEN \* standard_box(calibration_accept_pump_mode_only); return
         /\ commit_trace' = <<"pump_mode_only">>
         /\ UNCHANGED <<cfg_volume_flow, file_volume_flow, callback_calls, closed>>
    ELSE IF pump_index >= NumPumps
    THEN \* IndexError, caught
         /\ commit_trace' = <<"IndexError">>
         /\ UNCHANGED <<cfg_volume_flow, file_volume_flow, callback_calls, closed>>
    ELSE \* pump_configs[self.pump_index].volume_flow = self.calculated_flow
         /\ cfg_volume_flow' = calculated_flow
         /\ IF outcome = "ConfigError"
            THEN /\ commit_trace' = <<"update", "validate", "ConfigError">>
                 /\ UNCHANGED <<file_volume_flow, callback_calls, closed>>
            ELSE IF outcome = "OSError"
            THEN /\ commit_trace' = <<"update", "validate", "sync", "OSError">>
                 /\ UNCHANGED <<file_volume_flow, callback_calls, closed>>
            ELSE /\ file_volume_flow' = calculated_flow
                 /\ callback_calls' = IF has_callback THEN callback_calls + 1 ELSE callback_calls
                 /\ commit_trace' =
                        <<"update", "validate", "sync">>
                        \o (IF has_callback
                            THEN (IF callback_raises THEN <<"callback", "callback_error">>
                                  ELSE <<"callback">>)
                            ELSE <<>>)
                        \o <<"close">>
                 /\ closed' = TRUE

\* A click on PB_accept: only a visible, enabled button of an open window is clicked.
AcceptAvailable == ~closed /\ PB_accept_visible /\ PB_accept_enabled

AcceptCalibration ==
    /\ AcceptAvailable
    /\ \E outcome \in StoreOutcomes, callback_raises \in BOOLEAN :
           accept_calibration(outcome, callback_raises)
    /\ UNCHANGED <<pump_mode, pump_index, arg_flow_rate, current_flow_rate, calculated_flow,
                   state, has_callback, amount, actual_amount, PB_start_visible,
                   PB_accept_visible, PB_accept_enabled, amount_visible, actual_visible,
                   warning_label, flow_label, dispense_count, dispensed_amount, call>>

\* button_exit: self.close
Exit ==
    /\ ~closed
    /\ closed' = TRUE
    /\ UNCHANGED <<pump_mode, pump_index, arg_flow_rate, current_flow_rate, calculated_flow,
                   state, has_callback, amount, actual_amount, PB_start_visible,
                   PB_accept_visible, PB_accept_enabled, amount_visible, actual_visible,
                   warning_label, flow_label, cfg_volume_flow, file_volume_flow,
                   dispense_count, dispensed_amount, callback_calls, commit_trace, call>>

Next ==
    \/ AmountPlus
    \/ AmountMinus
    \/ output_volume
    \/ ActualAmountPlus
    \/ ActualAmountMinus
    \/ AcceptCalibration
    \/ Exit

Spec == Init /\ [][Next]_vars

\* ------------------------------------------------------------ direct calls

\* accept_calibration called on a standalone screen, where PB_accept is never shown.
StandaloneAcceptCall ==
    /\ ~closed
    /\ ~pump_mode
    /\ \E outcome \in StoreOutcomes, callback_raises \in BOOLEAN :
           accept_calibration(outcome, callback_raises)
    /\ UNCHANGED <<pump_mode, pump_index, arg_flow_rate, current_flow_rate, calculated_flow,
                   state, has_callback, amount, actual_amount, PB_start_visible,
                   PB_accept_visible, PB_accept_enabled, amount_visible, actual_visible,
                   warning_label, flow_label, dispense_count, dispensed_amount, call>>

NextDirect ==
    \/ AmountPlus
    \/ AmountMinus
    \/ output_volume
    \/ ActualAmountPlus
    \/ ActualAmountMinus
    \/ AcceptCalibration
    \/ Exit
    \/ StandaloneAcceptCall

SpecDirect == Init /\ [][NextDirect]_vars

\* ------------------------------------- the pure function on its own (SpecCalc)

\* One call of calculate_corrected_flow_rate(f, t, a) on arbitrary arguments.
InitCalc ==
    /\ SessionInit
    /\ pump_index = NoPump
    /\ ~arg_flow_rate.given
    /\ ~has_callback
    /\ amount = AMOUNT_MIN
    /\ call \in {[NoCall EXCEPT !.f = f, !.t = t, !.a = a] :
                    f \in CalcFlows, t \in CalcVolumes, a \in CalcVolumes}

CallCalculate ==
    /\ ~call.done
    /\ LET x == calculate_corrected_flow_rate(call.f, call.t, call.a)
       IN  call' = [call EXCEPT !.done = TRUE, !.raised = x.raised, !.num = x.num, !.den = x.den]
    /\ UNCHANGED sessionVars

NextCalc == CallCalculate

SpecCalc == InitCalc /\ [][NextCalc]_vars

\* ------------------- the function and the checks on arbitrary volumes (SpecClassify)

\* A session with a positive current flow rate f, and a target and an actual volume
\* of any sign: calculate_corrected_flow_rate(f, t, a) is called, and the volumes go
\* through the checks of on_actual_amount_changed.
InitClassify ==
    /\ SessionInit
    /\ pump_index = NoPump
    /\ arg_flow_rate.given
    /\ ~has_callback
    /\ amount = AMOUNT_MIN
    /\ call \in {[NoCall EXCEPT !.f = current_flow_rate, !.t = t, !.a = a] :
                    t \in CalcVolumes, a \in CalcVolumes}

\* The value the function returned is rounded, stored and put through the bounds and
\* deviation checks (lines 235-261 of on_actual_amount_changed).
ClassifyResult ==
    /\ call.done
    /\ ~call.raised
    /\ call.classified = "no"
    /\ \E c \in round2([num |-> call.num, den |-> call.den]) :
           /\ calculated_flow' = c
           /\ check_and_display(c)
    /\ call' = [call EXCEPT !.classified = "result"]
    /\ UNCHANGED <<pump_mode, pump_index, arg_flow_rate, current_flow_rate,
                   state, has_callback, amount, actual_amount, PB_start_visible,
                   PB_accept_visible, amount_visible, actual_visible,
                   closed, cfg_volume_flow, file_volume_flow,
                   dispense_count, dispensed_amount, callback_calls, commit_trace>>

\* on_actual_amount_changed runs on the two volumes as the texts of the fields.
RecomputeOnVolumes ==
    /\ call.classified = "no"
    /\ on_actual_amount_changed(call.t, call.a)
    /\ call' = [call EXCEPT !.classified = "handler"]
    /\ UNCHANGED <<pump_mode, pump_index, arg_flow_rate, current_flow_rate,
                   state, has_callback, amount, actual_amount, PB_start_visible,
                   PB_accept_visible, amount_visible, actual_visible,
                   closed, cfg_volume_flow, file_volume_flow,
                   dispense_count, dispensed_amount, callback_calls, commit_trace>>

NextClassify ==
    \/ CallCalculate
    \/ ClassifyResult
    \/ RecomputeOnVolumes

SpecClassify == InitClassify /\ [][NextClassify]_vars

\* ------------------------------------------------------------------ claims

\* c hundredths lies within [0.1, 1000.0] ml/s.
WithinFlowBounds(c) == 10 <= c /\ c <= 100000

\* The last accept_calibration call wrote the pump's flow rate.
CommitWrote == commit_trace # <<>> /\ commit_trace[1] = "update"

\* The last accept_calibration call ran to its end.
CommitSucceeded == commit_trace # <<>> /\ commit_trace[Len(commit_trace)] = "close"

\* C1: whenever the accept button can be clicked, the stored corrected flow rate
\* lies within [0.1, 1000.0] ml/s, and so does every flow rate a commit has written
\* to the pump configuration or to the file.
C1_NeverCommitsOutOfBounds ==
    /\ AcceptAvailable => WithinFlowBounds(calculated_flow)
    /\ CommitWrote => WithinFlowBounds(cfg_volume_flow)
    /\ CommitSucceeded => WithinFlowBounds(file_volume_flow)

\* C1 witness: a commit went through after the actual amount was changed away from
\* the target.
C1_Witness ==
    /\ CommitSucceeded
    /\ actual_amount # amount
    /\ file_volume_flow = calculated_flow
    /\ file_volume_flow # current_flow_rate

\* C2: a call of calculate_corrected_flow_rate(f, t, a) never raises; it returns f
\* when a = 0 and the quotient f * t / a otherwise (a = t gives f, 2a = t gives 2f,
\* a = 2t gives f/2), for negative arguments too.
C2_CorrectedFlowRate ==
    call.done =>
        /\ ~call.raised
        /\ call.den > 0
        /\ call.a = 0 => (call.num = call.f /\ call.den = 1)
        /\ call.a # 0 => call.num * call.a = call.f * call.t * call.den
        /\ (call.a # 0 /\ call.a = call.t) => (call.num = call.f /\ call.den = 1)
        /\ (call.a # 0 /\ 2 * call.a = call.t) => (call.num = 2 * call.f /\ call.den = 1)
        /\ (call.a # 0 /\ call.a = 2 * call.t) => 2 * call.num = call.f * call.den

\* C2 witness: the call with actual 0 returned the current flow 30 for target 100.
C2_Witness ==
    /\ call.done
    /\ call.a = 0
    /\ call.f = 30
    /\ call.t = 100
    /\ call.num = 30

\* A second case of C2: negative arguments, 30 * (-100 / 200) = -15.
C2_WitnessNegative ==
    /\ call.done
    /\ call.f = 30
    /\ call.t = -100
    /\ call.a = 200
    /\ call.num = -15
    /\ call.den = 1

\* The display of a rejected value: out-of-bounds text, no value, accept disabled.
ShownOutOfBounds ==
    /\ warning_label = OutOfBoundsText
    /\ flow_label = NoFlowShown
    /\ ~PB_accept_enabled

\* C3: after a recomputation with a positive actual amount the out-of-bounds status
\* is shown exactly when the stored flow rate is < 0.1 or > 1000.0 ml/s (0.1 and
\* 1000.0 themselves are not out of bounds), whatever the deviation ratio is: an
\* out-of-bounds value never gets the deviation warning or an empty warning.
C3_OutOfBoundsFirst ==
    (state = POST_DISPENSE /\ actual_amount > 0) =>
        /\ ShownOutOfBounds <=> (calculated_flow < 10 \/ calculated_flow > 100000)
        /\ (calculated_flow < 10 \/ calculated_flow > 100000)
               => warning_label \notin {UnrealisticText, NoWarningText}
        /\ ~(calculated_flow < 10 \/ calculated_flow > 100000)
               => warning_label \in {UnrealisticText, NoWarningText}

\* C3 witness: a value below 0.1 ml/s whose deviation ratio is within [0.5, 3.0] is
\* out of bounds all the same.
C3_Witness ==
    /\ state = POST_DISPENSE
    /\ actual_amount > 0
    /\ calculated_flow < 10
    /\ 2 * calculated_flow >= current_flow_rate
    /\ calculated_flow <= 3 * current_flow_rate
    /\ ShownOutOfBounds

\* Further cases of C3: the bounds themselves are accepted.
C3_WitnessAtMinimum ==
    /\ state = POST_DISPENSE
    /\ actual_amount # amount
    /\ calculated_flow = 10
    /\ PB_accept_enabled

C3_WitnessAtMaximum ==
    /\ state = POST_DISPENSE
    /\ actual_amount > 0
    /\ calculated_flow = 100000
    /\ PB_accept_enabled

\* A value above 1000.0 ml/s is out of bounds (1000.0 * 200 / 100 = 2000.0).
C3_WitnessAboveMaximum ==
    /\ state = POST_DISPENSE
    /\ actual_amount > 0
    /\ calculated_flow = 200000
    /\ ShownOutOfBounds

\* C4: after a recomputation with a positive actual amount that left the stored flow
\* rate within the bounds, the accept button is enabled, the value is shown, and the
\* deviation warning is shown when the ratio stored / current is above 3.0 or below
\* 0.5 and no warning when it is strictly between them; a ratio of exactly 3.0 or
\* exactly 0.5 gives no warning when the two flow rates are exact as floats (so that
\* the computed quotient is the limit itself).
C4_DeviationWarning ==
    (state = POST_DISPENSE /\ actual_amount > 0 /\ WithinFlowBounds(calculated_flow)) =>
        /\ PB_accept_enabled
        /\ flow_label = FlowShown(calculated_flow)
        /\ warning_label \in {UnrealisticText, NoWarningText}
        /\ (calculated_flow > 3 * current_flow_rate \/ 2 * calculated_flow < current_flow_rate)
               => warning_label = UnrealisticText
        /\ (calculated_flow < 3 * current_flow_rate /\ 2 * calculated_flow > current_flow_rate)
               => warning_label = NoWarningText
        /\ ((calculated_flow = 3 * current_flow_rate \/ 2 * calculated_flow = current_flow_rate)
                /\ FloatExact(calculated_flow) /\ FloatExact(current_flow_rate))
               => warning_label = NoWarningText

\* C4 witness: 30.0 ml/s corrected to 90.0 ml/s, ratio exactly 3.0, no warning.
C4_Witness ==
    /\ state = POST_DISPENSE
    /\ actual_amount > 0
    /\ current_flow_rate = 3000
    /\ calculated_flow = 9000
    /\ warning_label = NoWarningText
    /\ PB_accept_enabled

\* Further cases of C4: ratio exactly 0.5; ratio 4.0 (30 * 200 / 50 = 120); the
\* valid 30 * 200 / 190 = 31.58.
C4_WitnessHalf ==
    /\ state = POST_DISPENSE
    /\ actual_amount > 0
    /\ current_flow_rate = 3000
    /\ calculated_flow = 1500
    /\ warning_label = NoWarningText

C4_WitnessRatioFour ==
    /\ state = POST_DISPENSE
    /\ amount = 200
    /\ actual_amount = 50
    /\ current_flow_rate = 3000
    /\ calculated_flow = 12000
    /\ warning_label = UnrealisticText

C4_WitnessValid ==
    /\ state = POST_DISPENSE
    /\ amount = 200
    /\ actual_amount = 190
    /\ current_flow_rate = 3000
    /\ calculated_flow = 3158
    /\ warning_label = NoWarningText

\* The state part of C5.
C5_AcceptEnabled ==
    state = POST_DISPENSE =>
        /\ warning_label \in {UnrealisticText, NoWarningText} =>
               /\ PB_accept_enabled
               /\ flow_label = FlowShown(calculated_flow)
               /\ (pump_mode /\ ~closed) => AcceptAvailable
        /\ ~PB_accept_enabled =>
               /\ warning_label = OutOfBoundsText
               /\ actual_amount <= 0 \/ ~WithinFlowBounds(calculated_flow)

\* The step part of C5: a step that changes the pump's flow rate, in memory or in
\* the file, is a click on the available accept button and writes the stored
\* corrected flow rate.
C5_CommitWritesStored ==
    /\ cfg_volume_flow' # cfg_volume_flow =>
           (AcceptAvailable /\ cfg_volume_flow' = calculated_flow)
    /\ file_volume_flow' # file_volume_flow =>
           (AcceptAvailable /\ file_volume_flow' = calculated_flow)

\* C5: after the dispense, whenever the deviation warning or no warning is shown
\* the accept button is enabled (and, in pump mode, can be clicked), the shown value
\* is the stored corrected flow rate and a commit writes that value; the button is
\* disabled only for an out-of-bounds value or an actual amount <= 0.
C5_SoftWarning == []C5_AcceptEnabled /\ [][C5_CommitWritesStored]_vars

\* C5 witness: a commit went through while the deviation warning was shown.
C5_Witness ==
    /\ state = POST_DISPENSE
    /\ warning_label = UnrealisticText
    /\ CommitSucceeded
    /\ file_volume_flow = calculated_flow
    /\ cfg_volume_flow = calculated_flow

\* C6: the state is PRE_DISPENSE exactly as long as no dispense was run, a step
\* changes it only by running a dispense, and once POST_DISPENSE it stays so.
C6_StateOnlyForward ==
    /\ [](state \in CalibrationState /\ (state = PRE_DISPENSE <=> dispense_count = 0))
    /\ [][/\ state = POST_DISPENSE => state' = POST_DISPENSE
          /\ state' # state => dispense_count' = dispense_count + 1]_vars

\* C6 witness: still POST_DISPENSE after a second dispense and a change of the
\* actual amount.
C6_Witness ==
    /\ state = POST_DISPENSE
    /\ dispense_count = 2
    /\ actual_amount # amount

\* A second case of C6: still POST_DISPENSE after a failed and after a successful commit.
C6_WitnessFailedCommit ==
    /\ state = POST_DISPENSE
    /\ commit_trace = <<"update", "validate", "ConfigError">>

C6_WitnessCommitted ==
    /\ state = POST_DISPENSE
    /\ CommitSucceeded
    /\ closed

\* C7 as claimed: after the dispense the dispense button is gone, the actuator ran
\* at most once, and the target is the dispensed amount.
C7_DispenseOnlyOnce ==
    /\ (state = POST_DISPENSE) => ~PB_start_visible
    /\ dispense_count <= 1
    /\ (state = POST_DISPENSE) => (amount = dispensed_amount /\ ~amount_visible)

\* C7 amended: in pump mode the dispense button is gone after the dispense and the
\* actuator ran at most once; in standalone mode the button stays; in both modes the
\* target inputs are hidden and the target is the dispensed amount.
C7_DispenseOnlyOnceInPumpMode ==
    /\ (state = POST_DISPENSE) => (PB_start_visible <=> ~pump_mode)
    /\ pump_mode => dispense_count <= 1
    /\ (state = POST_DISPENSE) => (amount = dispensed_amount /\ ~amount_visible)
    /\ (state = PRE_DISPENSE) => (PB_start_visible /\ ~actual_visible /\ ~PB_accept_visible)

\* C7 witness: a pump-mode session after its dispense, a change of the actual amount
\* and a failed commit.
C7_Witness ==
    /\ pump_mode
    /\ state = POST_DISPENSE
    /\ dispense_count = 1
    /\ actual_amount # amount
    /\ CommitWrote
    /\ ~closed

\* C8 as claimed (rounding to 2 decimals granted): after the dispense the stored
\* corrected flow rate is the value computed from the current flow rate, the target
\* and the actual amount.
C8_StoredIsRecomputed ==
    state = POST_DISPENSE =>
        calculated_flow \in round2(calculate_corrected_flow_rate(current_flow_rate, amount, actual_amount))

\* C8 amended: with a positive actual amount the stored corrected flow rate is
\* current * target / actual rounded to 2 decimals (out-of-bounds values included);
\* with an actual amount <= 0 nothing is shown and the accept button is disabled.
C8_StoredIsRecomputedForPositive ==
    state = POST_DISPENSE =>
        /\ actual_amount > 0 =>
               /\ 2 * (calculated_flow * actual_amount - current_flow_rate * amount) <= actual_amount
               /\ 2 * (current_flow_rate * amount - calculated_flow * actual_amount) <= actual_amount
        /\ actual_amount <= 0 => (flow_label = NoFlowShown /\ ~PB_accept_enabled)

\* C8 witness: an out-of-bounds value is stored (1000.0 * 200 / 100 = 2000.0).
C8_Witness ==
    /\ state = POST_DISPENSE
    /\ actual_amount > 0
    /\ actual_amount # amount
    /\ calculated_flow > 100000
    /\ calculated_flow * actual_amount = current_flow_rate * amount
    /\ ShownOutOfBounds

\* The state part of C9.
C9_Rejected ==
    (state = POST_DISPENSE /\ actual_amount <= 0) =>
        /\ ~PB_accept_enabled
        /\ ~AcceptAvailable
        /\ flow_label = NoFlowShown
        /\ warning_label = OutOfBoundsText
        /\ ~closed => actual_visible

\* The step part of C9: a step that leaves the actual amount <= 0 stores no flow
\* rate and keeps the state.
C9_NoComputation ==
    (state' = POST_DISPENSE /\ actual_amount' <= 0) =>
        (calculated_flow' = calculated_flow /\ (state = POST_DISPENSE => state' = state))

\* C9: with an actual amount <= 0 the accept button is disabled and no value is
\* shown, the step that set it stored no flow rate, and the session stays in
\* POST_DISPENSE with the actual amount inputs available.
C9_InvalidMeasurement == []C9_Rejected /\ [][C9_NoComputation]_vars

\* C9 witness: actual amount 0 in an open pump-mode session whose stored flow rate
\* is the one of the earlier actual amount 10.
C9_Witness ==
    /\ state = POST_DISPENSE
    /\ pump_mode
    /\ ~closed
    /\ actual_amount = 0
    /\ calculated_flow * 10 = current_flow_rate * amount
    /\ calculated_flow # current_flow_rate
    /\ ~PB_accept_enabled

\* C10 as claimed: in a pump-mode session constructed with a current flow rate of 0 the zero
\* is not swallowed: after the dispense no value is accepted and the out-of-bounds
\* text is not shown.
C10_ZeroFlowRateNotSwallowed ==
    (pump_mode /\ arg_flow_rate.given /\ arg_flow_rate.value = 0 /\ state = POST_DISPENSE) =>
        (~PB_accept_enabled /\ warning_label # OutOfBoundsText)

\* A positive current flow rate with exactly one negative volume, the other positive.
C11_OneNegativeVolume ==
    /\ call.f > 0
    /\ (call.t < 0 /\ call.a > 0) \/ (call.t > 0 /\ call.a < 0)

\* C11: for a positive current flow rate and one negative volume (the other
\* positive) calculate_corrected_flow_rate returns a negative value; that value,
\* rounded and put through the checks, gets the out-of-bounds display with the accept
\* button disabled, never the deviation warning or no warning; and
\* on_actual_amount_changed run on the two volumes ends the same way.
C11_NegativeIsOutOfBounds ==
    C11_OneNegativeVolume =>
        /\ call.done => (~call.raised /\ call.num < 0 /\ call.den > 0)
        /\ call.classified = "result" =>
               (calculated_flow <= 0 /\ ShownOutOfBounds /\ ~AcceptAvailable)
        /\ call.classified = "handler" =>
               (calculated_flow <= 0 /\ ShownOutOfBounds /\ ~AcceptAvailable)

\* C11 witness: 30 * (-100 / 100) = -30.00 was returned, stored and shown as out of
\* bounds.
C11_Witness ==
    /\ call.f = 3000
    /\ call.t = -100
    /\ call.a = 100
    /\ call.done
    /\ call.num = -3000
    /\ call.classified = "result"
    /\ calculated_flow = -3000
    /\ ShownOutOfBounds

\* Further cases of C11: a negative actual volume through the function and the
\* checks; a negative target and a negative actual volume through the handler.
C11_WitnessNegativeActual ==
    /\ call.f = 3000
    /\ call.t = 100
    /\ call.a = -100
    /\ call.classified = "result"
    /\ calculated_flow = -3000
    /\ ShownOutOfBounds

C11_WitnessHandlerTarget ==
    /\ call.t = -100
    /\ call.a = 100
    /\ call.classified = "handler"
    /\ calculated_flow < 0
    /\ ShownOutOfBounds

C11_WitnessHandlerActual ==
    /\ call.t = 100
    /\ call.a = -100
    /\ call.classified = "handler"
    /\ calculated_flow = 0
    /\ ShownOutOfBounds

\* The pump's flow rate as configured before the session.
ConfiguredFlowRate == IF arg_flow_rate.given THEN arg_flow_rate.value ELSE DEFAULT_FLOW_RATE

\* The state part of C12.
C12_NothingBeforeDispense ==
    /\ state = PRE_DISPENSE =>
           /\ calculated_flow = 0
           /\ flow_label = NoFlowShown
           /\ warning_label = InitialWarningText
           /\ ~actual_visible
           /\ ~PB_accept_visible
           /\ ~AcceptAvailable
           /\ commit_trace = <<>>
           /\ callback_calls = 0
           /\ cfg_volume_flow = ConfiguredFlowRate
           /\ file_volume_flow = ConfiguredFlowRate
    /\ commit_trace # <<>> => (state = POST_DISPENSE /\ dispense_count >= 1)

\* The step part of C12: a step that stores or shows a flow rate ends after the
\* dispense with a positive actual amount; a step of accept_calibration starts after
\* the dispense, with a positive actual amount whose flow rate is stored and shown.
C12_OnlyAfterDispense ==
    /\ (calculated_flow' # calculated_flow \/ flow_label' # flow_label) =>
           (state' = POST_DISPENSE /\ dispense_count' >= 1 /\ actual_visible')
    /\ calculated_flow' # calculated_flow => actual_amount' > 0
    /\ (commit_trace' # commit_trace \/ cfg_volume_flow' # cfg_volume_flow
            \/ file_volume_flow' # file_volume_flow \/ callback_calls' # callback_calls) =>
           /\ state = POST_DISPENSE
           /\ dispense_count >= 1
           /\ actual_amount > 0
           /\ flow_label = FlowShown(calculated_flow)

\* C12: before the dispense no flow rate is stored or shown, the actual amount
\* inputs and the accept button are hidden and nothing was committed; a flow rate is
\* computed and a commit is run only after the dispense, on a positive actual
\* amount.
C12_DispenseBeforeCommit == []C12_NothingBeforeDispense /\ [][C12_OnlyAfterDispense]_vars

\* C12 witness: a commit with its callback went through after one dispense.
C12_Witness ==
    /\ state = POST_DISPENSE
    /\ dispense_count = 1
    /\ CommitSucceeded
    /\ has_callback
    /\ callback_calls = 1
    /\ flow_label = FlowShown(calculated_flow)

\* A second case of C12: an open session before its dispense, the target changed.
C12_WitnessBeforeDispense ==
    /\ state = PRE_DISPENSE
    /\ pump_mode
    /\ ~closed
    /\ amount = AMOUNT_MAX
    /\ PB_accept_enabled
    /\ ~PB_accept_visible

\* A step of accept_calibration that wrote the pump's flow rate.
C13_CommitStep ==
    /\ commit_trace' # <<>>
    /\ commit_trace'[1] = "update"
    /\ <<cfg_volume_flow, file_volume_flow, commit_trace>>'
           # <<cfg_volume_flow, file_volume_flow, commit_trace>>

\* v is current_flow_rate * amount / actual_amount rounded to 2 decimals.
C13_IsRounded(v) ==
    /\ actual_amount > 0
    /\ 2 * Abs(v * actual_amount - current_flow_rate * amount) <= actual_amount

\* The step part of C13.
C13_CommitStepWritesRounded ==
    C13_CommitStep =>
        /\ C13_IsRounded(cfg_volume_flow')
        /\ cfg_volume_flow' = calculated_flow
        /\ flow_label = FlowShown(cfg_volume_flow')
        /\ WithinFlowBounds(cfg_volume_flow')
        /\ ~OutOfBounds(cfg_volume_flow')
        /\ warning_label \in {NoWarningText, UnrealisticText}
        /\ warning_label = UnrealisticText =>
               TRUE \in UnrealisticDeviation(cfg_volume_flow', current_flow_rate)
        /\ warning_label = NoWarningText =>
               FALSE \in UnrealisticDeviation(cfg_volume_flow', current_flow_rate)
        /\ file_volume_flow' # file_volume_flow => file_volume_flow' = cfg_volume_flow'

\* C13: the flow rate a commit writes to the pump configuration is
\* current_flow_rate * amount / actual_amount of the session's current inputs rounded
\* to 2 decimals, the value stored and shown, and the bounds and deviation checks
\* shown were made on this rounded value.
C13_CommitsRoundedValue == [][C13_CommitStepWritesRounded]_vars

\* C13 witness: 0.06 ml/s, target 160, actual 100: 0.096 ml/s is below the minimum,
\* its rounded value 0.10 ml/s is not, and 0.10 ml/s was committed.
C13_Witness ==
    /\ CommitSucceeded
    /\ current_flow_rate = 6
    /\ amount = 160
    /\ actual_amount = 100
    /\ file_volume_flow = 10
    /\ cfg_volume_flow = 10

\* A second case of C13: 30 ml/s, target 10, actual 70: 4.2857... ml/s is committed
\* as 4.29 ml/s under the deviation warning.
C13_WitnessRoundedUp ==
    /\ CommitSucceeded
    /\ current_flow_rate = 3000
    /\ amount = 10
    /\ actual_amount = 70
    /\ file_volume_flow = 429
    /\ warning_label = UnrealisticText

\* The traces of an accept_calibration call that ran to its end.
C14_SuccessTraces ==
    {<<"update", "validate", "sync", "close">>,
     <<"update", "validate", "sync", "callback", "close">>,
     <<"update", "validate", "sync", "callback", "callback_error", "close">>}

\* The state part of C14.
C14_CommitOrder ==
    /\ CommitSucceeded =>
           /\ commit_trace \in C14_SuccessTraces
           /\ pump_mode
           /\ closed
           /\ file_volume_flow = cfg_volume_flow
           /\ has_callback <=> commit_trace[4] = "callback"
           /\ callback_calls = (IF has_callback THEN 1 ELSE 0)
    /\ callback_calls \in {0, 1}
    /\ callback_calls = 1 => CommitSucceeded
    /\ CommitWrote => pump_mode
    /\ ~pump_mode =>
           /\ commit_trace \in {<<>>, <<"pump_mode_only">>}
           /\ cfg_volume_flow = ConfiguredFlowRate
           /\ file_volume_flow = ConfiguredFlowRate
           /\ callback_calls = 0

\* The step part of C14: a call that ran to its end wrote the stored flow rate to
\* the configuration and the file and closed an open window; a call on a standalone
\* screen leaves the window, the state and the configuration as they are.
C14_CommitStep ==
    /\ (commit_trace' # commit_trace /\ commit_trace' \in C14_SuccessTraces) =>
           /\ ~closed
           /\ closed'
           /\ cfg_volume_flow' = calculated_flow
           /\ file_volume_flow' = calculated_flow
    /\ (commit_trace' # commit_trace /\ commit_trace' = <<"pump_mode_only">>) =>
           /\ ~closed'
           /\ state' = state
           /\ UNCHANGED <<cfg_volume_flow, file_volume_flow, callback_calls>>

\* C14: a commit that succeeds updates the pump's flow rate, validates, syncs to
\* file, then calls the callback at most once and closes the window, also when the
\* callback raises; only a pump mode session commits, and accept_calibration on a
\* standalone screen changes no configuration and leaves the window open.
C14_SuccessfulCommit == []C14_CommitOrder /\ [][C14_CommitStep]_vars

\* C14 witness: the callback raised after the sync and the window was closed.
C14_Witness ==
    /\ commit_trace = <<"update", "validate", "sync", "callback", "callback_error", "close">>
    /\ closed
    /\ callback_calls = 1
    /\ file_volume_flow = calculated_flow

\* A second case of C14: accept_calibration ran on a standalone screen after the
\* dispense and the window is open.
C14_WitnessStandalone ==
    /\ ~pump_mode
    /\ commit_trace = <<"pump_mode_only">>
    /\ state = POST_DISPENSE
    /\ ~closed
    /\ calculated_flow # cfg_volume_flow

\* A step of accept_calibration that ended in its exception handler.
C15_FailedCommitStep ==
    /\ commit_trace' # <<>>
    /\ commit_trace'[Len(commit_trace')] \in {"ConfigError", "IndexError", "OSError"}
    /\ <<cfg_volume_flow, commit_trace>>' # <<cfg_volume_flow, commit_trace>>

\* What a failed commit does keep: the file, the callback, the open window and the
\* state; and with a pump index out of range the configuration too.
C15_FailedCommitKeepsFile ==
    [][C15_FailedCommitStep =>
           /\ UNCHANGED <<file_volume_flow, callback_calls, closed, state>>
           /\ ~closed'
           /\ state' = POST_DISPENSE
           /\ AcceptAvailable'
           /\ commit_trace' = <<"IndexError">> => cfg_volume_flow' = cfg_volume_flow]_vars

====
